---------------------------- MODULE Spec2Model ----------------------------
(***************************************************************************)
(* Model of the avalon-core host integration scripts:                      *)
(*   - the Photoshop CEP panel (src/unnamed/part_000): route registration, *)
(*     script construction, EscapeStringForJSX, runEvalScript;             *)
(*   - the Harmony shim (src/avalon/harmony/js/AvalonHarmony.js):          *)
(*     setState, getUniqueColumnName.                                      *)
(* A string is a sequence of characters; a character is a one-character    *)
(* TLA+ string, and a fixed piece of a script template is one token.       *)
(***************************************************************************)
EXTENDS Integers, Sequences, FiniteSets, TLC

\* ------------------------------------------------------------------ bounds
\* Longest caller-supplied string drawn for the escaping specification.
MaxLen == 3
\* Number of inbound calls the control process issues in one session.
MaxCalls == 2
\* How many times the host may fire the callback of one Script Invocation.
MaxFires == 2

\* -------------------------------------------------------------- characters
BS == "\\"
SQ == "'"
DQ == "\""
NL == "\n"
Quotes == {SQ, DQ}
Alphabet == {BS, SQ, DQ, "a"}

RECURSIVE StringsUpTo(_)
StringsUpTo(n) ==
    IF n = 0 THEN {<<>>}
    ELSE LET shorter == StringsUpTo(n - 1)
         IN  shorter \cup {Append(s, c) : s \in shorter, c \in Alphabet}

Range(s) == {s[i] : i \in 1..Len(s)}

\* String.prototype.replace(/ch/g, rep): every occurrence of the character
\* ch, left to right, is replaced by the string rep.
RECURSIVE ReplaceAll(_, _, _)
ReplaceAll(str, ch, rep) ==
    IF str = <<>> THEN <<>>
    ELSE (IF Head(str) = ch THEN rep ELSE <<Head(str)>>)
            \o ReplaceAll(Tail(str), ch, rep)

\* Mutant of EscapeStringForJSX: the quotes are escaped before the
\* backslashes, so the backslashes just added are doubled again.
EscapeQuotesFirst(str) ==
    ReplaceAll(ReplaceAll(ReplaceAll(str, SQ, <<BS, SQ>>), DQ, <<BS, DQ>>),
               BS, <<BS, BS>>)

\* part_000:29-36
EscapeStringForJSX(str) ==
    ReplaceAll(ReplaceAll(ReplaceAll(str, BS, <<BS, BS>>), SQ, <<BS, SQ>>),
               DQ, <<BS, DQ>>)

\* The host grammar's reading of a string literal, from the character after
\* its opening quote q: a backslash followed by a backslash or a quote
\* denotes that one character, and the first quote q not so escaped closes
\* the literal. value: the string denoted; rest: the text after the literal.
RECURSIVE ReadLiteral(_, _)
ReadLiteral(s, q) ==
    IF s = <<>> THEN [value |-> <<>>, closed |-> FALSE, rest |-> <<>>]
    ELSE IF Head(s) = q
         THEN [value |-> <<>>, closed |-> TRUE, rest |-> Tail(s)]
    ELSE IF Head(s) = BS /\ Len(s) >= 2 /\ s[2] \in Quotes \cup {BS}
         THEN LET r == ReadLiteral(SubSeq(s, 3, Len(s)), q)
              IN  [r EXCEPT !.value = <<s[2]>> \o @]
    ELSE LET r == ReadLiteral(Tail(s), q)
         IN  [r EXCEPT !.value = <<Head(s)>> \o @]

\* A literal as the routes write it: the text between single quotes.
Quoted(text) == <<SQ>> \o text \o <<SQ>>

\* ------------------------------------------------------------------ state
VARIABLES
    registered,   \* the addRoute calls performed so far, in order (names)
    ping,         \* the panel's own RPC.call('Photoshop.ping'): its position
    calls,        \* inbound call id -> the handler invocation's record
    invocations,  \* the csInterface.evalScript calls made so far, in order
    responses,    \* the responses the dispatcher has sent, in order
    str, escaped, parsed, escPc,          \* the escaping round trip
    enabled, setStateArgs, setStateRet,   \* Harmony: node enable states
    columns, columnPrefix, suffix, columnName, colPc,  \* Harmony: columns
    views, viewIndex, nodeView, currentGroup, groupPc,  \* Harmony: views
    avalon_on_file_changed, flagAtSave, lastWatcherCall, sceneFile,
    saveSceneRet,                         \* Harmony: saving and the watcher
    sceneMetadata, lastSetArg, sceneDataRet   \* Harmony: scene metadata

bridgeVars == <<registered, ping, calls, invocations, responses>>
escVars == <<str, escaped, parsed, escPc>>
stateVars == <<enabled, setStateArgs, setStateRet>>
columnVars == <<columns, columnPrefix, suffix, columnName, colPc>>
viewVars == <<views, viewIndex, nodeView, currentGroup, groupPc>>
sceneVars ==
    <<avalon_on_file_changed, flagAtSave, lastWatcherCall, sceneFile,
      saveSceneRet, sceneMetadata, lastSetArg, sceneDataRet>>
vars == <<bridgeVars, escVars, stateVars, columnVars, viewVars, sceneVars>>
\* What the panel's actions leave alone.
otherVars == <<escVars, stateVars, columnVars, viewVars, sceneVars>>

\* ------------------------------------------------- the escaping round trip
EscInit ==
    /\ str \in StringsUpTo(MaxLen)
    /\ escaped = <<>>
    /\ parsed = ReadLiteral(<<>>, SQ)
    /\ escPc = "input"

\* The panel escapes the caller's string and puts it between quotes
\* (part_000:48-49).
Escape ==
    /\ escPc = "input"
    /\ escaped' = Quoted(EscapeStringForJSX(str))
    /\ escPc' = "escaped"
    /\ UNCHANGED <<str, parsed>>
    /\ UNCHANGED <<bridgeVars, stateVars, columnVars, viewVars, sceneVars>>

\* The host reads the literal: the opening quote, then up to the closing one.
HostParse ==
    /\ escPc = "escaped"
    /\ parsed' = ReadLiteral(Tail(escaped), Head(escaped))
    /\ escPc' = "parsed"
    /\ UNCHANGED <<str, escaped>>
    /\ UNCHANGED <<bridgeVars, stateVars, columnVars, viewVars, sceneVars>>

\* The next call brings another string.
NextString ==
    /\ escPc = "parsed"
    /\ str' \in StringsUpTo(MaxLen)
    /\ escaped' = <<>>
    /\ parsed' = ReadLiteral(<<>>, SQ)
    /\ escPc' = "input"
    /\ UNCHANGED <<bridgeVars, stateVars, columnVars, viewVars, sceneVars>>

\* ------------------------------------------------------ the panel's routes
\* Mutant of RouteNames: the saveAs route is registered under the name of
\* the save route.
RouteNamesSaveTwice ==
    << "Photoshop.open", "Photoshop.read", "Photoshop.get_layers",
       "Photoshop.set_visible", "Photoshop.get_active_document_name",
       "Photoshop.get_active_document_full_name", "Photoshop.save",
       "Photoshop.get_selected_layers", "Photoshop.create_group",
       "Photoshop.group_selected_layers", "Photoshop.import_smart_object",
       "Photoshop.replace_smart_object", "Photoshop.select_layers",
       "Photoshop.is_saved", "Photoshop.save", "Photoshop.imprint" >>

\* The method names of the RPC.addRoute calls, in the order of the script.
RouteNames ==
    << "Photoshop.open", "Photoshop.read", "Photoshop.get_layers",
       "Photoshop.set_visible", "Photoshop.get_active_document_name",
       "Photoshop.get_active_document_full_name", "Photoshop.save",
       "Photoshop.get_selected_layers", "Photoshop.create_group",
       "Photoshop.group_selected_layers", "Photoshop.import_smart_object",
       "Photoshop.replace_smart_object", "Photoshop.select_layers",
       "Photoshop.is_saved", "Photoshop.saveAs", "Photoshop.imprint" >>

\* The strings a caller sends in this model: a plain one and one that holds
\* a backslash and a quote; an imprint payload may hold a newline.
CallerStrings == {<<"a">>, <<BS, "a", SQ>>}
ImprintPayloads == {<<"a">>, <<NL, SQ>>}
LayerIds == {42}
NoData == [none |-> TRUE]

\* The payloads of a call of `method`: the fields its handler reads.
Payloads(method) ==
    CASE method \in {"Photoshop.open", "Photoshop.import_smart_object"} ->
            [path : CallerStrings]
      [] method = "Photoshop.set_visible" ->
            [layer_id : LayerIds, visibility : BOOLEAN]
      [] method \in {"Photoshop.create_group",
                     "Photoshop.group_selected_layers"} ->
            [name : CallerStrings]
      [] method = "Photoshop.replace_smart_object" ->
            [layer : CallerStrings, path : CallerStrings]
      [] method = "Photoshop.select_layers" ->
            [layers : {<<42>>, <<42, 43>>}]
      [] method = "Photoshop.saveAs" ->
            [image_path : CallerStrings, ext : CallerStrings,
             as_copy : BOOLEAN]
      [] method = "Photoshop.imprint" ->
            [payload : ImprintPayloads]
      [] OTHER -> {NoData}

\* The caller-supplied string fields a route puts into its snippet.
StringFields(method) ==
    CASE method \in {"Photoshop.open", "Photoshop.import_smart_object"} ->
            {"path"}
      [] method \in {"Photoshop.create_group",
                     "Photoshop.group_selected_layers"} -> {"name"}
      [] method = "Photoshop.replace_smart_object" -> {"layer", "path"}
      [] method = "Photoshop.saveAs" -> {"image_path", "ext"}
      [] method = "Photoshop.imprint" -> {"payload"}
      [] OTHER -> {}

\* The values a handler substitutes, as it prepares them before building
\* the snippet (var escapedPath = ..., var escaped = ...): the fields it
\* escapes are escaped, every other field is taken as the caller sent it.
Interpolated(method, data) ==
    CASE method \in {"Photoshop.open", "Photoshop.import_smart_object",
                     "Photoshop.replace_smart_object"} ->
            [data EXCEPT !.path = EscapeStringForJSX(@)]
      [] method = "Photoshop.saveAs" ->
            [data EXCEPT !.image_path = EscapeStringForJSX(@)]
      [] method = "Photoshop.imprint" ->
            [data EXCEPT !.payload = ReplaceAll(@, NL, <<BS, "n">>)]
      [] OTHER -> data

\* JavaScript's conversion of a boolean in a string concatenation.
BoolStr(b) == IF b THEN "true" ELSE "false"

\* The snippet of a route: its fixed text around the substituted values v.
Template(method, v) ==
    CASE method = "Photoshop.open" ->
            <<"fileOpen(">> \o Quoted(v.path) \o <<")">>
      [] method = "Photoshop.read" -> <<"getHeadline()">>
      [] method = "Photoshop.get_layers" -> <<"getLayers()">>
      [] method = "Photoshop.set_visible" ->
            <<"setVisible(", ToString(v.layer_id), ", ",
              BoolStr(v.visibility), ")">>
      [] method = "Photoshop.get_active_document_name" ->
            <<"getActiveDocumentName()">>
      [] method = "Photoshop.get_active_document_full_name" ->
            <<"getActiveDocumentFullName()">>
      [] method = "Photoshop.save" -> <<"save()">>
      [] method = "Photoshop.get_selected_layers" ->
            <<"getSelectedLayers()">>
      [] method = "Photoshop.create_group" ->
            <<"createGroup(">> \o Quoted(v.name) \o <<")">>
      [] method = "Photoshop.group_selected_layers" ->
            <<"groupSelectedLayers(null, ">> \o Quoted(v.name) \o <<")">>
      [] method = "Photoshop.import_smart_object" ->
            <<"importSmartObject(">> \o Quoted(v.path) \o <<")">>
      [] method = "Photoshop.replace_smart_object" ->
            <<"replaceSmartObjects(">> \o Quoted(v.layer) \o <<",">>
                \o Quoted(v.path) \o <<")">>
      [] method = "Photoshop.select_layers" -> <<"selectLayers()">>
      [] method = "Photoshop.is_saved" -> <<"isSaved()">>
      [] method = "Photoshop.saveAs" ->
            <<"saveAs(">> \o Quoted(v.image_path) \o <<", ">>
                \o Quoted(v.ext) \o <<", ", BoolStr(v.as_copy), ")">>
      [] method = "Photoshop.imprint" ->
            <<"imprint(">> \o Quoted(v.payload) \o <<")">>

\* The script a handler hands to runEvalScript.
Script(method, data) == Template(method, Interpolated(method, data))

\* ---------------------------------------------------------- the bridge
CallIds == 1..MaxCalls
\* The owner of the Script Invocation made for the panel's own ping.
PingOwner == 0

\* What the host can hand to the callback of evalScript. The callback takes
\* one argument, so a failure of the script reaches the panel as a payload.
HostOutcomes ==
    { [failed |-> FALSE, payload |-> "ok"],
      [failed |-> TRUE, payload |-> "EvalScript error."] }
NoOutcome == [failed |-> FALSE, payload |-> "none"]

NoCall == [state |-> "NONE", method |-> "", data |-> NoData, result |-> "none"]
PendingPromise == [state |-> "pending", value |-> "none"]

\* Mutant of HandlerScripts: the handler evaluates a second script.
HandlerScriptsTwice(method, data) ==
    <<Script(method, data), Script(method, data)>>

\* The scripts one invocation of a route's handler hands to runEvalScript:
\* every handler is `return runEvalScript(<snippet>).then(...)`.
HandlerScripts(method, data) == <<Script(method, data)>>

\* Mutant of Resolve: the callback handed to the host settles nothing.
ResolveNever(promise, value) == promise

\* Mutant of Resolve: settling a promise that is already settled.
ResolveAgain(promise, value) == [state |-> "fulfilled", value |-> value]

\* resolve(value) of the promise runEvalScript creates: it settles a pending
\* promise and does nothing to a settled one. reject is never called.
Resolve(promise, value) ==
    IF promise.state = "pending"
    THEN [state |-> "fulfilled", value |-> value]
    ELSE promise

\* Mutant of CallbackTarget: the callback is kept in one shared variable,
\* so the host's callback settles the promise of the latest invocation.
CallbackShared(i, invs) == Len(invs)

\* csInterface.evalScript(script, resolve): the callback of invocation i is
\* the resolve of the promise created in the same runEvalScript call.
CallbackTarget(i, invs) == i

\* runEvalScript(script) on behalf of owner: one evalScript call, with a
\* new pending promise.
RunEvalScript(script, owner) ==
    [script |-> script, owner |-> owner, fires |-> 0, first |-> NoOutcome,
     promise |-> PendingPromise]

\* .then(function(result){ log.warn(...); return result; }): the handler's
\* call settles as its promise did, with the same value.
Settle(call, promise) ==
    [call EXCEPT !.state = IF promise.state = "fulfilled" THEN "RESOLVED"
                           ELSE "REJECTED",
                 !.result = promise.value]

\* The dispatcher's response for a settled handler call.
DispatcherResponse(id, promise) ==
    IF promise.state = "fulfilled"
    THEN [id |-> id, kind |-> "result", value |-> promise.value]
    ELSE [id |-> id, kind |-> "error", value |-> promise.value]

Routes == Range(registered)
StartupDone == ping # "startup"

BridgeInit ==
    /\ registered = <<>>
    /\ ping = "startup"
    /\ calls = [c \in CallIds |-> NoCall]
    /\ invocations = <<>>
    /\ responses = <<>>

\* One RPC.addRoute statement of the panel's script.
AddRoute ==
    /\ ping = "startup"
    /\ Len(registered) < Len(RouteNames)
    /\ registered' = Append(registered, RouteNames[Len(registered) + 1])
    /\ UNCHANGED <<ping, calls, invocations, responses>>
    /\ UNCHANGED otherVars

\* RPC.call('Photoshop.ping'), the last statement of the script.
CallPing ==
    /\ ping = "startup"
    /\ Len(registered) = Len(RouteNames)
    /\ ping' = "sent"
    /\ UNCHANGED <<registered, calls, invocations, responses>>
    /\ UNCHANGED otherVars

\* The server answers the ping: the panel evaluates ping().
PingAnswered ==
    /\ ping = "sent"
    /\ ping' = "evaluating"
    /\ invocations' = Append(invocations, RunEvalScript(<<"ping()">>, PingOwner))
    /\ UNCHANGED <<registered, calls, responses>>
    /\ UNCHANGED otherVars

\* The ping fails: the error is logged.
PingFailed ==
    /\ ping = "sent"
    /\ ping' = "failed"
    /\ UNCHANGED <<registered, calls, invocations, responses>>
    /\ UNCHANGED otherVars

\* An inbound call: ids are issued in order, the route is looked up and its
\* handler runs up to the return of its promise.
Dispatch(c, method, data) ==
    /\ StartupDone
    /\ calls[c].state = "NONE"
    /\ \A d \in CallIds : d < c => calls[d].state # "NONE"
    /\ method \in Routes
    /\ LET scripts == HandlerScripts(method, data)
       IN  invocations' = invocations \o
               [k \in 1..Len(scripts) |-> RunEvalScript(scripts[k], c)]
    /\ calls' = [calls EXCEPT ![c] =
                    [state |-> "AWAITING_SCRIPT_RESULT", method |-> method,
                     data |-> data, result |-> "none"]]
    /\ UNCHANGED <<registered, ping, responses>>
    /\ UNCHANGED otherVars

\* The host fires the callback of invocation i with outcome o; what the
\* panel does then, to the end of its promise chain.
HostCallback(i, o) ==
    /\ invocations[i].fires < MaxFires
    /\ LET t == CallbackTarget(i, invocations)
           before == invocations[t].promise
           after == Resolve(before, o.payload)
           owner == invocations[t].owner
           fired == [invocations EXCEPT
                        ![i].fires = @ + 1,
                        ![i].first = IF invocations[i].fires = 0 THEN o ELSE @]
       IN  /\ invocations' = [fired EXCEPT ![t].promise = after]
           /\ IF after = before
              THEN UNCHANGED <<ping, calls, responses>>
              ELSE IF owner = PingOwner
              THEN /\ ping' = "done"
                   /\ UNCHANGED <<calls, responses>>
              ELSE /\ calls' = [calls EXCEPT ![owner] = Settle(@, after)]
                   /\ responses' =
                        Append(responses, DispatcherResponse(owner, after))
                   /\ UNCHANGED ping
    /\ UNCHANGED registered
    /\ UNCHANGED otherVars

\* ------------------------------------------------ Harmony: node states
\* Most nodes one call names.
MaxNodes == 2
Nodes == {"Top/a", "Top/b"}

RECURSIVE SeqsUpTo(_, _)
SeqsUpTo(S, n) ==
    IF n = 0 THEN {<<>>}
    ELSE LET shorter == SeqsUpTo(S, n - 1)
         IN  shorter \cup {Append(q, x) : q \in shorter, x \in S}

\* node.setEnable(n, state) of the host.
SetEnable(en, n, state) == [en EXCEPT ![n] = state]

\* for (var i = 0; i < nodes.length; i++) node.setEnable(nodes[i], states[i]),
\* from index i on.
RECURSIVE EnableLoop(_, _, _, _)
EnableLoop(en, nodes, states, i) ==
    IF i > Len(nodes) THEN en
    ELSE EnableLoop(SetEnable(en, nodes[i], states[i]), nodes, states, i + 1)

\* Mutant of setState: the lengths are compared after the pairs that exist
\* have been applied.
RECURSIVE EnablePrefix(_, _, _, _)
EnablePrefix(en, nodes, states, i) ==
    IF i > Len(nodes) \/ i > Len(states) THEN en
    ELSE EnablePrefix(SetEnable(en, nodes[i], states[i]), nodes, states, i + 1)
setStateLateCheck(en, nodes, states) ==
    [ret |-> Len(nodes) = Len(states),
     enabled |-> EnablePrefix(en, nodes, states, 1)]

\* AvalonHarmony.setState(args) with args = [nodes, states]: what it
\* returns and the enable states it leaves.
setState(en, nodes, states) ==
    IF Len(nodes) # Len(states)
    THEN [ret |-> FALSE, enabled |-> en]
    ELSE [ret |-> TRUE, enabled |-> EnableLoop(en, nodes, states, 1)]

\* AvalonHarmony.disableNodes(nodes), from index i on.
RECURSIVE disableNodes(_, _, _)
disableNodes(en, nodes, i) ==
    IF i > Len(nodes) THEN en
    ELSE disableNodes(SetEnable(en, nodes[i], FALSE), nodes, i + 1)

StateInit ==
    /\ enabled \in [Nodes -> BOOLEAN]
    /\ setStateArgs = <<>>
    /\ setStateRet = "none"

CallSetState(nodes, states) ==
    /\ LET r == setState(enabled, nodes, states)
       IN  /\ enabled' = r.enabled
           /\ setStateRet' = r.ret
    /\ setStateArgs' = <<nodes, states>>
    /\ UNCHANGED <<bridgeVars, escVars, columnVars, viewVars, sceneVars>>

CallDisableNodes(nodes) ==
    /\ enabled' = disableNodes(enabled, nodes, 1)
    /\ setStateArgs' = <<>>
    /\ setStateRet' = "none"
    /\ UNCHANGED <<bridgeVars, escVars, columnVars, viewVars, sceneVars>>

\* ---------------------------------------------------- Harmony: columns
\* while (suffix < 2000)
SuffixLimit == 2000
\* Existing columns off the run of taken names, in the initial states.
MaxStray == 1
Prefixes == {"ATV", "ATV_1"}

\* columnPrefix + '_' + suffix
SuffixedName(prefix, k) == prefix \o "_" \o ToString(k)
\* The k-th name the search tries.
TriedName(prefix, k) == IF k = 0 THEN prefix ELSE SuffixedName(prefix, k)

\* The scene's columns are kept as a short description: the first `run`
\* names the search for "ATV" tries, and the names in `stray`.
ColumnNames(cols) ==
    {TriedName("ATV", k) : k \in 0..(cols.run - 1)} \cup cols.stray

\* column.type(name) of the host: the empty string when no such column.
ColumnType(cols, name) == IF name \in ColumnNames(cols) THEN "EXPR" ELSE ""

\* The scenes of the initial states: the first n names the search for "ATV"
\* tries are taken, and so are some of the names a little further on.
ColumnSets ==
    { [run |-> n, stray |-> {TriedName("ATV", n + j) : j \in js}]
      : n \in {0, 1, 2, SuffixLimit, SuffixLimit + 1},
        js \in SUBSET (1..MaxStray) }

ColumnInit ==
    /\ columns \in ColumnSets
    /\ columnPrefix = ""
    /\ suffix = 0
    /\ columnName = ""
    /\ colPc = "idle"

\* AvalonHarmony.getUniqueColumnName(columnPrefix), up to the loop.
GetUniqueColumnName(prefix) ==
    /\ colPc \in {"idle", "returned"}
    /\ columnPrefix' = prefix
    /\ suffix' = 0
    /\ columnName' = prefix
    /\ colPc' = "loop"
    /\ UNCHANGED columns
    /\ UNCHANGED <<bridgeVars, escVars, stateVars, viewVars, sceneVars>>

\* One evaluation of the loop condition and, when it holds, of the body.
ColumnLoop ==
    /\ colPc = "loop"
    /\ IF suffix < SuffixLimit /\ ColumnType(columns, columnName) # ""
       THEN /\ suffix' = suffix + 1
            /\ columnName' = SuffixedName(columnPrefix, suffix + 1)
            /\ colPc' = "loop"
       ELSE /\ colPc' = "returned"
            /\ UNCHANGED <<suffix, columnName>>
    /\ UNCHANGED <<columns, columnPrefix>>
    /\ UNCHANGED <<bridgeVars, escVars, stateVars, viewVars, sceneVars>>

\* ------------------------------------------------ Harmony: current group
\* for (i = 0; i < 200; i++)
ViewLimit == 200
\* 'View' + (i)
ViewName(i) == "View" \o ToString(i)
\* The groups of the scene; "Top" is the root.
SceneGroups == {"Top", "Top/Group"}

\* The layouts of the initial states: some of these views are Node Views,
\* each showing a group; `elsewhere` is what the host's view.group answers
\* for a view that is no Node View.
NodeViewSlots == {0, 1, ViewLimit - 1, ViewLimit}
ViewLayouts ==
    { [nodeViews |-> {[name |-> ViewName(i), group |-> g[i]] : i \in slots},
       elsewhere |-> e]
      : slots \in SUBSET NodeViewSlots,
        g \in [NodeViewSlots -> SceneGroups],
        e \in {"", "Top", "Top/Group"} }

\* view.type(name) of the host.
ViewType(v, name) ==
    IF \E nv \in v.nodeViews : nv.name = name THEN "Node View" ELSE "Camera"
\* view.group(name) of the host.
ViewGroup(v, name) ==
    IF \E nv \in v.nodeViews : nv.name = name
    THEN (CHOOSE nv \in v.nodeViews : nv.name = name).group
    ELSE v.elsewhere
\* doc.$node(path): the node at the path, null when there is none.
NodeAt(path) == IF path \in SceneGroups THEN path ELSE "null"

\* The statements after the loop: what getCurrentGroup returns for the
\* value the loop left in nodeView.
GroupOfView(v, name) ==
    IF name = "" THEN "undefined"
    ELSE NodeAt(ViewGroup(v, name))

ViewInit ==
    /\ views \in ViewLayouts
    /\ viewIndex = 0
    /\ nodeView = ""
    /\ currentGroup = ""
    /\ groupPc = "idle"

\* AvalonHarmony.getCurrentGroup(), up to the loop.
GetCurrentGroup ==
    /\ groupPc = "idle"
    /\ nodeView' = ""
    /\ viewIndex' = 0
    /\ groupPc' = "loop"
    /\ UNCHANGED <<views, currentGroup>>
    /\ UNCHANGED <<bridgeVars, escVars, stateVars, columnVars, sceneVars>>

\* One evaluation of the loop condition and, when it holds, of the body;
\* when the loop ends, the rest of the function up to its return.
ViewLoop ==
    /\ groupPc = "loop"
    /\ IF viewIndex < ViewLimit
       THEN IF ViewType(views, ViewName(viewIndex)) = "Node View"
            THEN /\ nodeView' = ViewName(viewIndex)
                 /\ currentGroup' = GroupOfView(views, ViewName(viewIndex))
                 /\ groupPc' = "returned"
                 /\ UNCHANGED viewIndex
            ELSE /\ nodeView' = ViewName(viewIndex)
                 /\ viewIndex' = viewIndex + 1
                 /\ UNCHANGED <<currentGroup, groupPc>>
       ELSE /\ currentGroup' = GroupOfView(views, nodeView)
            /\ groupPc' = "returned"
            /\ UNCHANGED <<viewIndex, nodeView>>
    /\ UNCHANGED views
    /\ UNCHANGED <<bridgeVars, escVars, stateVars, columnVars, sceneVars>>

\* The user opens, closes or moves views between two calls.
ChangeViews ==
    /\ groupPc = "returned"
    /\ views' \in ViewLayouts
    /\ viewIndex' = 0
    /\ nodeView' = ""
    /\ currentGroup' = ""
    /\ groupPc' = "idle"
    /\ UNCHANGED <<bridgeVars, escVars, stateVars, columnVars, sceneVars>>

\* ------------------------------------------------ Harmony: scene metadata
\* Deepest nesting of the objects a caller passes to setSceneData.
MaxDepth == 2

\* JSON values: a string (its characters in s), a literal such as 1 or null
\* (its one token in s), or an object (its members, in order).
JsonStr(chars) == [t |-> "string", s |-> chars, members |-> <<>>]
JsonLit(token) == [t |-> "literal", s |-> <<token>>, members |-> <<>>]
JsonObj(members) == [t |-> "object", s |-> <<>>, members |-> members]
EmptyObject == JsonObj(<<>>)

JsonStrings == {<<>>, <<"a">>, <<DQ, "}">>, <<BS>>}
JsonKeys == {<<"a">>, <<"b">>}
JsonScalars ==
    {JsonStr(x) : x \in JsonStrings} \cup {JsonLit("1"), JsonLit("null")}

\* The objects nested at most d deep: {}, {k: v}, and {"a": v, "b": w}.
RECURSIVE JsonObjects(_)
JsonObjects(d) ==
    LET values == IF d <= 1 THEN JsonScalars
                  ELSE JsonScalars \cup JsonObjects(d - 1)
    IN  {EmptyObject}
        \cup {JsonObj(<<[key |-> k, value |-> v]>>) :
                k \in JsonKeys, v \in values}
        \cup {JsonObj(<<[key |-> <<"a">>, value |-> v],
                        [key |-> <<"b">>, value |-> w]>>) :
                v \in values, w \in {JsonStr(<<"a">>), JsonLit("1")}}

\* A JSON string: backslashes and double quotes escaped, between quotes.
JsonQuote(chars) ==
    <<DQ>> \o ReplaceAll(ReplaceAll(chars, BS, <<BS, BS>>), DQ, <<BS, DQ>>)
        \o <<DQ>>

\* JSON.stringify(value): the text, character by character.
RECURSIVE Stringify(_)
RECURSIVE StringifyMembers(_, _)
Stringify(v) ==
    CASE v.t = "string" -> JsonQuote(v.s)
      [] v.t = "literal" -> v.s
      [] v.t = "object" ->
            <<"{">> \o StringifyMembers(v.members, 1) \o <<"}">>
StringifyMembers(ms, k) ==
    IF k > Len(ms) THEN <<>>
    ELSE (IF k > 1 THEN <<",">> ELSE <<>>)
            \o JsonQuote(ms[k].key) \o <<":">> \o Stringify(ms[k].value)
            \o StringifyMembers(ms, k + 1)

\* JSON.parse(text): the value at the head of the text and the text left.
RECURSIVE ParseValue(_)
RECURSIVE ParseMembers(_, _)
ParseValue(text) ==
    IF Head(text) = DQ
    THEN LET r == ReadLiteral(Tail(text), DQ)
         IN  [value |-> JsonStr(r.value), rest |-> r.rest]
    ELSE IF Head(text) = "{" THEN ParseMembers(Tail(text), <<>>)
    ELSE [value |-> JsonLit(Head(text)), rest |-> Tail(text)]
ParseMembers(text, ms) ==
    IF Head(text) = "}" THEN [value |-> JsonObj(ms), rest |-> Tail(text)]
    ELSE LET member == IF Head(text) = "," THEN Tail(text) ELSE text
             k == ReadLiteral(Tail(member), DQ)
             v == ParseValue(Tail(k.rest))
         IN  ParseMembers(v.rest, Append(ms, [key |-> k.value, value |-> v.value]))

\* scene.setMetadata(md): the entry of that name is replaced.
SetMetadata(store, md) == {m \in store : m.name # md.name} \cup {md}
\* scene.metadata(name): the entries of that name (none: undefined).
Metadata(store, name) == {m \in store : m.name = name}

\* Mutant of setSceneData: the entry is stored under the creator's name.
setSceneDataAsCreator(store, metadata) ==
    SetMetadata(store, [name |-> "Avalon", type |-> "string",
                        creator |-> "Avalon", version |-> "1.0",
                        value |-> Stringify(metadata)])

\* AvalonHarmony.setSceneData(metadata): the scene's metadata afterwards.
setSceneData(store, metadata) ==
    SetMetadata(store, [name |-> "avalon", type |-> "string",
                        creator |-> "Avalon", version |-> "1.0",
                        value |-> Stringify(metadata)])

\* AvalonHarmony.getSceneData(): what it returns.
getSceneData(store) ==
    LET metadata == Metadata(store, "avalon")
    IN  IF metadata # {}
        THEN ParseValue((CHOOSE m \in metadata : TRUE).value).value
        ELSE EmptyObject

\* Mutant of saveScene: the scene is saved before the watcher flag is cleared.
saveSceneSavesFirst(flag, file) ==
    [flag |-> FALSE, atSave |-> flag,
     ret |-> file.path \o "/" \o file.version \o ".xstage"]

\* AvalonHarmony.saveScene(): the flag it leaves, the flag scene.saveAll()
\* ran under, and the path it returns.
saveScene(flag, file) ==
    [flag |-> FALSE, atSave |-> FALSE,
     ret |-> file.path \o "/" \o file.version \o ".xstage"]

\* AvalonHarmony.enableFileWatcher(): the flag it leaves.
enableFileWatcher(flag) == TRUE

\* Metadata of another tool that the scene may hold.
OtherMetadata ==
    [name |-> "other", type |-> "string", creator |-> "Other",
     version |-> "1.0", value |-> JsonQuote(<<"a">>)]

SceneInit ==
    /\ avalon_on_file_changed \in BOOLEAN
    /\ flagAtSave = <<>>
    /\ lastWatcherCall = "none"
    /\ sceneFile \in [path : {"/projects/shot"},
                      version : {"shot_v001", "shot_v002"}]
    /\ saveSceneRet = ""
    /\ sceneMetadata \in {{}, {OtherMetadata}}
    /\ lastSetArg = <<>>
    /\ sceneDataRet = <<>>

restOfScene == <<bridgeVars, escVars, stateVars, columnVars, viewVars>>

CallSaveScene ==
    /\ LET r == saveScene(avalon_on_file_changed, sceneFile)
       IN  /\ avalon_on_file_changed' = r.flag
           /\ flagAtSave' = <<r.atSave>>
           /\ saveSceneRet' = r.ret
    /\ lastWatcherCall' = "saveScene"
    /\ UNCHANGED <<sceneFile, sceneMetadata, lastSetArg, sceneDataRet>>
    /\ UNCHANGED restOfScene

CallEnableFileWatcher ==
    /\ avalon_on_file_changed' = enableFileWatcher(avalon_on_file_changed)
    /\ lastWatcherCall' = "enableFileWatcher"
    /\ UNCHANGED <<flagAtSave, sceneFile, saveSceneRet, sceneMetadata,
                   lastSetArg, sceneDataRet>>
    /\ UNCHANGED restOfScene

CallSetSceneData(metadata) ==
    /\ sceneMetadata' = setSceneData(sceneMetadata, metadata)
    /\ lastSetArg' = <<metadata>>
    /\ sceneDataRet' = <<>>
    /\ UNCHANGED <<avalon_on_file_changed, flagAtSave, lastWatcherCall,
                   sceneFile, saveSceneRet>>
    /\ UNCHANGED restOfScene

CallGetSceneData ==
    /\ sceneDataRet' = <<getSceneData(sceneMetadata)>>
    /\ UNCHANGED <<avalon_on_file_changed, flagAtSave, lastWatcherCall,
                   sceneFile, saveSceneRet, sceneMetadata, lastSetArg>>
    /\ UNCHANGED restOfScene

\* ------------------------------------------------------- specifications
IdleBridge ==
    /\ registered = RouteNames
    /\ ping = "failed"
    /\ calls = [c \in CallIds |-> NoCall]
    /\ invocations = <<>>
    /\ responses = <<>>
IdleEsc ==
    /\ str = <<>> /\ escaped = <<>> /\ parsed = ReadLiteral(<<>>, SQ)
    /\ escPc = "idle"
IdleState ==
    /\ enabled = [n \in Nodes |-> TRUE]
    /\ setStateArgs = <<>>
    /\ setStateRet = "none"
IdleColumns ==
    /\ columns = [run |-> 0, stray |-> {}]
    /\ columnPrefix = "" /\ suffix = 0 /\ columnName = ""
    /\ colPc = "off"

IdleViews ==
    /\ views = [nodeViews |-> {}, elsewhere |-> ""]
    /\ viewIndex = 0 /\ nodeView = ""
    /\ currentGroup = "" /\ groupPc = "off"
IdleScene ==
    /\ avalon_on_file_changed = FALSE /\ flagAtSave = <<>>
    /\ lastWatcherCall = "off" /\ sceneFile = [path |-> "", version |-> ""]
    /\ saveSceneRet = ""
    /\ sceneMetadata = {} /\ lastSetArg = <<>> /\ sceneDataRet = <<>>
IdleHarmony == IdleState /\ IdleColumns /\ IdleViews /\ IdleScene

\* The Photoshop panel: its script, the inbound calls and the host.
Init == BridgeInit /\ IdleEsc /\ IdleHarmony
Next ==
    \/ AddRoute
    \/ CallPing
    \/ PingAnswered
    \/ PingFailed
    \/ \E c \in CallIds, method \in Range(RouteNames) :
          \E data \in Payloads(method) : Dispatch(c, method, data)
    \/ \E i \in 1..Len(invocations), o \in HostOutcomes : HostCallback(i, o)
Spec == Init /\ [][Next]_vars

\* EscapeStringForJSX and the host's reading of what it produced.
InitEscape == IdleBridge /\ EscInit /\ IdleHarmony
NextEscape == Escape \/ HostParse \/ NextString
SpecEscape == InitEscape /\ [][NextEscape]_vars

\* AvalonHarmony.setState and disableNodes.
InitState ==
    IdleBridge /\ IdleEsc /\ StateInit /\ IdleColumns /\ IdleViews /\ IdleScene
NextState ==
    \/ \E nodes \in SeqsUpTo(Nodes, MaxNodes),
          states \in SeqsUpTo(BOOLEAN, MaxNodes) : CallSetState(nodes, states)
    \/ \E nodes \in SeqsUpTo(Nodes, MaxNodes) : CallDisableNodes(nodes)
SpecState == InitState /\ [][NextState]_vars

\* AvalonHarmony.getUniqueColumnName.
InitColumns ==
    IdleBridge /\ IdleEsc /\ IdleState /\ ColumnInit /\ IdleViews /\ IdleScene
NextColumns ==
    \/ \E prefix \in Prefixes : GetUniqueColumnName(prefix)
    \/ ColumnLoop
SpecColumns == InitColumns /\ [][NextColumns]_vars

\* AvalonHarmony.getCurrentGroup.
InitViews ==
    IdleBridge /\ IdleEsc /\ IdleState /\ IdleColumns /\ ViewInit /\ IdleScene
NextViews == GetCurrentGroup \/ ViewLoop \/ ChangeViews
SpecViews == InitViews /\ [][NextViews]_vars

\* AvalonHarmony scene metadata, saveScene and the file watcher.
InitScene ==
    IdleBridge /\ IdleEsc /\ IdleState /\ IdleColumns /\ IdleViews /\ SceneInit
NextScene ==
    \/ CallSaveScene
    \/ CallEnableFileWatcher
    \/ \E metadata \in JsonObjects(MaxDepth) : CallSetSceneData(metadata)
    \/ CallGetSceneData
SpecScene == InitScene /\ [][NextScene]_vars

\* The panel with a host that fires the callback of every Script Invocation
\* exactly once, and does fire it.
HostCallbackOnce(i, o) ==
    /\ i <= Len(invocations)
    /\ invocations[i].fires = 0
    /\ HostCallback(i, o)

NextLive ==
    \/ AddRoute
    \/ CallPing
    \/ PingAnswered
    \/ PingFailed
    \/ \E c \in CallIds, method \in Range(RouteNames) :
          \E data \in Payloads(method) : Dispatch(c, method, data)
    \/ \E i \in 1..(MaxCalls + 1), o \in HostOutcomes : HostCallbackOnce(i, o)
HostFires ==
    \A i \in 1..(MaxCalls + 1) :
        WF_vars(\E o \in HostOutcomes : HostCallbackOnce(i, o))
SpecLive == Init /\ [][NextLive]_vars /\ HostFires

\* ================================================================ claims
\* The Script Invocations made on behalf of call c.
Own(invs, c) == {i \in 1..Len(invs) : invs[i].owner = c}
\* The responses sent for call c.
ResponsesOf(rs, c) == {k \in 1..Len(rs) : rs[k].id = c}
Dispatched(c) == calls[c].state # "NONE"
Terminal(call) == call.state \in {"RESOLVED", "REJECTED"}

\* The payload with every caller-supplied string field escaped.
AllEscaped(method, data) ==
    [f \in DOMAIN data |->
        IF f \in StringFields(method) THEN EscapeStringForJSX(data[f])
        ELSE data[f]]

\* C1 (as claimed): every caller-supplied string field a route puts into
\* its snippet is escaped with EscapeStringForJSX before it is substituted:
\* the script of every handler call is its template around escaped values.
C1_EveryInterpolationEscaped ==
    \A c \in CallIds : \A i \in Own(invocations, c) :
        invocations[i].script =
            Template(calls[c].method, AllEscaped(calls[c].method, calls[c].data))

\* C2: the output of EscapeStringForJSX, placed between quotes and read back
\* as a string literal, is exactly the original string, and the literal ends
\* at the closing quote the route wrote.
C2_EscapeRoundTrip ==
    escPc = "parsed" =>
        parsed = [value |-> str, closed |-> TRUE, rest |-> <<>>]

\* The path \a" is escaped to \\a\" and read back as \a".
C2_Witness ==
    /\ escPc = "parsed"
    /\ str = <<BS, "a", DQ>>
    /\ escaped = Quoted(<<BS, BS, "a", BS, DQ>>)
    /\ parsed.value = str

C4_HostFailureRejects ==
    \A c \in CallIds : \A i \in Own(invocations, c) :
        (invocations[i].fires >= 1 /\ invocations[i].first.failed) =>
            /\ calls[c].state = "REJECTED"
            /\ \A k \in ResponsesOf(responses, c) : responses[k].kind = "error"

\* The Script Invocations of route handlers whose callback the host has not
\* fired yet.
InFlight ==
    {i \in 1..Len(invocations) :
        invocations[i].owner \in CallIds /\ invocations[i].fires = 0}

\* C5 (as claimed): in every reachable state at most one Script Invocation
\* of a route handler is in flight against the host engine: a handler invoked
\* while another handler's invocation awaits its callback is queued or
\* rejected by the panel, not dispatched to the host.
C5_AtMostOneInFlight == Cardinality(InFlight) <= 1

\* C6: every outstanding or completed call is correlated with its own Script
\* Invocation: it is resolved exactly when the callback of its own
\* invocation has fired, with the payload the host delivered to that
\* invocation, and the response carrying its id carries that payload.
C6_OwnResult ==
    \A c \in CallIds : \A i \in Own(invocations, c) :
        /\ (calls[c].state = "RESOLVED") <=> (invocations[i].fires >= 1)
        /\ calls[c].state = "RESOLVED" =>
              /\ calls[c].result = invocations[i].first.payload
              /\ \A k \in ResponsesOf(responses, c) :
                    responses[k].value = invocations[i].first.payload

\* get_layers (id 1) and is_saved (id 2) were outstanding together, is_saved
\* completed first, and each got the payload of its own invocation.
C6_Witness ==
    /\ MaxCalls >= 2
    /\ calls[1].method = "Photoshop.get_layers"
    /\ calls[2].method = "Photoshop.is_saved"
    /\ calls[1].state = "RESOLVED" /\ calls[2].state = "RESOLVED"
    /\ Len(responses) = 2
    /\ responses[1] = [id |-> 2, kind |-> "result", value |-> "ok"]
    /\ responses[2] =
          [id |-> 1, kind |-> "result", value |-> "EvalScript error."]
    /\ calls[1].result = "EvalScript error." /\ calls[2].result = "ok"

\* The steps a call's state may take.
CallSteps ==
    { <<"NONE", "AWAITING_SCRIPT_RESULT">>,
      <<"AWAITING_SCRIPT_RESULT", "RESOLVED">>,
      <<"AWAITING_SCRIPT_RESULT", "REJECTED">> }

C7_Step ==
    \A c \in CallIds :
        /\ calls'[c].state # calls[c].state =>
              <<calls[c].state, calls'[c].state>> \in CallSteps
        /\ Terminal(calls[c]) =>
              /\ calls'[c] = calls[c]
              /\ Own(invocations', c) = Own(invocations, c)
              /\ ResponsesOf(responses', c) = ResponsesOf(responses, c)
        /\ Cardinality(ResponsesOf(responses', c)) <= 1

\* C7: a call goes NONE -> AWAITING_SCRIPT_RESULT -> RESOLVED or REJECTED;
\* once it is resolved or rejected, no step changes its outcome, sends
\* another response for it or issues another Script Invocation for it, also
\* when the host fires the callback again; it never has two responses.
C7_TerminalIsFinal == [][C7_Step]_vars

\* A resolved call whose callback the host has fired a second time.
C7_Witness ==
    \E c \in CallIds : \E i \in Own(invocations, c) :
        /\ calls[c].state = "RESOLVED"
        /\ invocations[i].fires >= 2
        /\ Cardinality(ResponsesOf(responses, c)) = 1

\* C8: no method name is registered twice; when the panel's script has run,
\* all its routes are registered, and they are the registered routes in
\* every later state; no call is dispatched before.
C8_RoutesUniqueAndFixed ==
    /\ \A i, j \in 1..Len(registered) :
          i # j => registered[i] # registered[j]
    /\ StartupDone => registered = RouteNames
    /\ Cardinality(Routes) = Len(registered)
    /\ \A c \in CallIds : Dispatched(c) => StartupDone

\* All sixteen routes are registered and a call has been dispatched.
C8_Witness ==
    /\ StartupDone
    /\ Cardinality(Routes) = 16
    /\ \E c \in CallIds : calls[c].state = "RESOLVED"

C9_Step ==
    setStateArgs' # <<>> =>
        LET nodes == setStateArgs'[1]
            states == setStateArgs'[2]
        IN  /\ Len(nodes) # Len(states) =>
                  /\ setStateRet' = FALSE
                  /\ enabled' = enabled
            /\ setStateRet' = TRUE => Len(nodes) = Len(states)
            /\ Len(nodes) = Len(states) =>
                  /\ setStateRet' = TRUE
                  /\ \A k \in 1..Len(nodes) :
                        (\A m \in (k + 1)..Len(nodes) : nodes[m] # nodes[k])
                            => enabled'[nodes[k]] = states[k]

\* C9: setState with arrays of different lengths returns false and leaves
\* the enable state of every node as it was; it returns true only when the
\* lengths are equal, and then the states are applied.
C9_SetStateAllOrNothing == [][C9_Step]_vars

\* setState([a, b], [false]) returned false and node a is still enabled.
C9_Witness ==
    /\ setStateArgs = << <<"Top/a", "Top/b">>, <<FALSE>> >>
    /\ setStateRet = FALSE
    /\ enabled["Top/a"] = TRUE

\* C10 (as claimed): the name getUniqueColumnName returns is not the name
\* of an existing column.
C10_ReturnedNameIsFree ==
    colPc = "returned" => columnName \notin ColumnNames(columns)

\* C12 (as claimed): the snippet of select_layers carries the layer ids of
\* the call's payload, so two select_layers calls with different ids hand
\* different scripts to the host engine.
C12_SelectLayersCarriesIds ==
    \A c, d \in CallIds : \A i \in Own(invocations, c), j \in Own(invocations, d) :
        ( /\ calls[c].method = "Photoshop.select_layers"
          /\ calls[d].method = "Photoshop.select_layers"
          /\ calls[c].data.layers # calls[d].data.layers )
            => invocations[i].script # invocations[j].script

\* C15: with a host that fires the callback of every Script Invocation
\* exactly once, every handler call that awaits its script result is
\* eventually resolved or rejected and its response has been sent.
C15_EveryCallCompletes ==
    \A c \in CallIds :
        (calls[c].state = "AWAITING_SCRIPT_RESULT")
            ~> (Terminal(calls[c]) /\ ResponsesOf(responses, c) # {})

\* Every call of the session was dispatched and has been answered.
C15_Witness ==
    /\ \A c \in CallIds :
          Terminal(calls[c]) /\ Cardinality(ResponsesOf(responses, c)) = 1
    /\ \A i \in 1..Len(invocations) : invocations[i].fires = 1

\* The Node Views among View0 .. View199, by index.
ScannedNodeViews(v) ==
    {i \in 0..(ViewLimit - 1) : ViewType(v, ViewName(i)) = "Node View"}
Least(S) == CHOOSE i \in S : \A j \in S : i <= j

\* C11 (as claimed): getCurrentGroup returns the group open in the first of
\* View0 .. View199 that is a Node View, and the "Top" group when none of
\* them is a Node View.
C11_CurrentGroupOrTop ==
    groupPc = "returned" =>
        currentGroup =
            IF ScannedNodeViews(views) # {}
            THEN NodeAt(ViewGroup(views, ViewName(Least(ScannedNodeViews(views)))))
            ELSE "Top"

\* C13: every scene.saveAll() of saveScene ran with the watcher flag already
\* false; the flag is false when the last of the saveScene /
\* enableFileWatcher calls was saveScene (saveScene does not set it back)
\* and true when it was enableFileWatcher.
C13_WatcherFlag ==
    /\ \A k \in 1..Len(flagAtSave) : flagAtSave[k] = FALSE
    /\ lastWatcherCall = "saveScene" =>
          avalon_on_file_changed = FALSE /\ flagAtSave # <<>>
    /\ lastWatcherCall = "enableFileWatcher" => avalon_on_file_changed = TRUE

\* The watcher was enabled, then saveScene ran and returned the scene path.
C13_Witness ==
    /\ lastWatcherCall = "saveScene"
    /\ avalon_on_file_changed = FALSE
    /\ flagAtSave = <<FALSE>>
    /\ saveSceneRet = "/projects/shot/shot_v002.xstage"

\* The avalon entry the most recent setSceneData must have left.
ExpectedSceneData == IF lastSetArg = <<>> THEN EmptyObject ELSE lastSetArg[1]

\* C14: what getSceneData returned equals the argument of the most recent
\* setSceneData, and the empty object when there was none; between two
\* setSceneData calls the stored avalon entry is the one the first of them
\* wrote, whatever getSceneData calls came after it.
C14_SceneDataRoundTrip ==
    /\ sceneDataRet # <<>> => sceneDataRet[1] = ExpectedSceneData
    /\ getSceneData(sceneMetadata) = ExpectedSceneData
    /\ lastSetArg = <<>> => Metadata(sceneMetadata, "avalon") = {}
    /\ Cardinality(Metadata(sceneMetadata, "avalon")) <= 1

\* getSceneData returned a nested object holding a quote and a brace in a
\* string, as the last setSceneData passed it.
C14_Witness ==
    /\ lastSetArg =
          <<JsonObj(<<[key |-> <<"a">>,
                       value |-> JsonObj(<<[key |-> <<"b">>,
                                            value |-> JsonStr(<<DQ, "}">>)]>>)],
                      [key |-> <<"b">>, value |-> JsonLit("1")]>>)>>
    /\ sceneDataRet = lastSetArg
    /\ OtherMetadata \in sceneMetadata

=============================================================================
